---- MODULE Spec2Model ----
(***************************************************************************)
(* Swept-profile picture frame (picture_frame_swept.py).                   *)
(*                                                                         *)
(* A solid is kept as the construction the script performs: the profile    *)
(* face, the extrusion amount, the cutting boxes subtracted from it and    *)
(* the location it is placed at.  Membership of a point in a solid is      *)
(* decided from that construction with exact integer arithmetic.           *)
(*                                                                         *)
(* Lengths are integers in units of 1/Scale mm, so that every control      *)
(* point of the profile (multiples of 0.05 * frame_width) is an integer.   *)
(***************************************************************************)
EXTENDS Integers, Sequences, FiniteSets, TLC

VARIABLES
    painting_width,   \* module constant, line 14
    painting_height,  \* module constant, line 15
    frame_width,      \* module constant, line 18
    frame_depth,      \* module constant, line 19
    rabbet_width,     \* module constant, line 20
    rabbet_depth,     \* module constant, line 21
    pc,               \* position in create_picture_frame
    idx,              \* index of the loop iteration (1..4)
    side,             \* the local variable side of the loop body
    sides,            \* the list sides
    frame             \* the returned solid

vars == <<painting_width, painting_height, frame_width, frame_depth,
          rabbet_width, rabbet_depth, pc, idx, side, sides, frame>>

params == <<painting_width, painting_height, frame_width, frame_depth,
            rabbet_width, rabbet_depth>>

\* Bounds of the explored parameter sets.
MaxPainting == 2
MaxFrameWidth == 3
MaxFrameDepth == 2

\* Every coordinate fraction of the profile is a multiple of 1/20.
Scale == 20

U(v) == Scale * v

\* 0.85, 0.75, ... of frame_width, in units of 1/Scale.
Frac(twentieths, v) == twentieths * v

Max(a, b) == IF a >= b THEN a ELSE b
Min(a, b) == IF a <= b THEN a ELSE b

NoSolid == [kind |-> "none"]

----------------------------------------------------------------------------
(* Default arguments of create_picture_frame. *)
width == painting_width + 2 * frame_width
height == painting_height + 2 * frame_width

(* The precondition of the specification's contract. *)
Valid ==
    /\ painting_width > 0 /\ painting_height > 0
    /\ frame_width > 0 /\ frame_depth > 0
    /\ rabbet_width > 0 /\ rabbet_depth > 0
    /\ rabbet_width < frame_width
    /\ rabbet_depth < frame_depth

----------------------------------------------------------------------------
(* Curve segments: a segment is the sequence of its control points.        *)
Line(p, q) == <<p, q>>
Bezier(cntl_pnts) == cntl_pnts

\* seg @ 0 and seg @ 1
StartOf(seg) == seg[1]
EndOf(seg) == seg[Len(seg)]

peak_height == frame_depth + 8

(* create_frame_profile: the outline, segment by segment.                  *)
l1 == Line(<<0, 0>>, <<U(frame_width - rabbet_width), 0>>)

l2 == Line(EndOf(l1), <<U(frame_width - rabbet_width), U(rabbet_depth)>>)

\* slip: the ledge drawn back down to the back face
l3_to_back == Line(EndOf(l2), <<U(frame_width), 0>>)

l3 == Line(EndOf(l2), <<U(frame_width), U(rabbet_depth)>>)

l4 == Line(EndOf(l3), <<U(frame_width), U(frame_depth)>>)

bezier ==
    Bezier(<<EndOf(l4),
             <<Frac(17, frame_width), U(frame_depth + 4)>>,
             <<Frac(15, frame_width), U(peak_height)>>,
             <<Frac(12, frame_width), U(peak_height)>> >>)

bezier2 ==
    Bezier(<<EndOf(bezier),
             <<Frac(9, frame_width), U(peak_height)>>,
             <<Frac(8, frame_width), U(peak_height - 5)>>,
             <<Frac(4, frame_width), U(frame_depth + 5)>> >>)

\* slip: a fourth control point, as in bezier and bezier2
bezier3_cubic ==
    Bezier(<<EndOf(bezier2),
             <<Frac(2, frame_width), U(frame_depth + 2)>>,
             <<Frac(1, frame_width), U(frame_depth + 1)>>,
             <<0, U(frame_depth)>> >>)

bezier3 ==
    Bezier(<<EndOf(bezier2),
             <<Frac(1, frame_width), U(frame_depth + 1)>>,
             <<0, U(frame_depth)>> >>)

\* slip: the outer edge stops at the height of the rabbet
l5_short == Line(EndOf(bezier3), <<0, U(rabbet_depth)>>)

l5 == Line(EndOf(bezier3), <<0, 0>>)

create_frame_profile == <<l1, l2, l3, l4, bezier, bezier2, bezier3, l5>>

----------------------------------------------------------------------------
(* The face bounded by an outline (make_face / profile.face()).            *)
(*                                                                         *)
(* A point is tested by counting the segments of the outline that pass     *)
(* above it (even-odd rule).  A straight segment is decided exactly.  A    *)
(* Bezier segment whose control abscissae are monotone is a graph over x   *)
(* that stays inside the hull of its control points: it passes above the   *)
(* point for certain when the point is below every control ordinate, and   *)
(* for certain not when the point is above every control ordinate.         *)
IsCurve(seg) == Len(seg) > 2

SegXs(seg) == {seg[i][1] : i \in 1..Len(seg)}
SegYs(seg) == {seg[i][2] : i \in 1..Len(seg)}
SetMax(S) == CHOOSE m \in S : \A v \in S : v <= m
SetMin(S) == CHOOSE m \in S : \A v \in S : m <= v

\* x lies in the half-open span of the segment's end abscissae
Spans(seg, x) ==
    LET a == StartOf(seg)[1]
        b == EndOf(seg)[1]
    IN  (Min(a, b) <= x) /\ (x < Max(a, b))

\* a straight segment that spans x passes strictly above (x, y)
LineAbove(seg, x, y) ==
    LET x0 == seg[1][1]
        y0 == seg[1][2]
        x1 == seg[2][1]
        y1 == seg[2][2]
        dx == x1 - x0
    IN  IF dx > 0
        THEN y * dx < y0 * dx + (y1 - y0) * (x - x0)
        ELSE y * dx > y0 * dx + (y1 - y0) * (x - x0)

\* a curve that spans x passes above (x, y): for certain, for certain not
CurveSurelyAbove(seg, y) == \A i \in 1..Len(seg) : y < seg[i][2]
CurveSurelyNotAbove(seg, y) == \A i \in 1..Len(seg) : y > seg[i][2]

Spanning(face, x) == {i \in 1..Len(face) : Spans(face[i], x)}

CrossingsAbove(face, sp, x, y) ==
    Cardinality({i \in sp :
        IF IsCurve(face[i])
        THEN CurveSurelyAbove(face[i], y)
        ELSE LineAbove(face[i], x, y)})

FaceDecided(face, sp, y) ==
    \A i \in sp :
        IsCurve(face[i]) =>
            (CurveSurelyAbove(face[i], y) \/ CurveSurelyNotAbove(face[i], y))

\* (x, y) is certainly a point of the face
InFace(face, x, y) ==
    LET sp == Spanning(face, x)
    IN  /\ sp # {}
        /\ FaceDecided(face, sp, y)
        /\ CrossingsAbove(face, sp, x, y) % 2 = 1

\* (x, y) is possibly a point of the face: InFace, or too close to a curve
\* to be excluded by the hull of its control points
MaybeInFace(face, x, y) ==
    LET sp == Spanning(face, x)
    IN  /\ sp # {}
        /\ FaceDecided(face, sp, y) => CrossingsAbove(face, sp, x, y) % 2 = 1

(* Extent of the outline: the hull of all control points.  The extreme     *)
(* control points of this profile are segment end points, which lie on     *)
(* the outline, so the hull is the exact bounding box.                     *)
FaceXs(face) == UNION {SegXs(face[i]) : i \in 1..Len(face)}
FaceYs(face) == UNION {SegYs(face[i]) : i \in 1..Len(face)}
FaceBox(face) ==
    [xmin |-> SetMin(FaceXs(face)), xmax |-> SetMax(FaceXs(face)),
     ymin |-> SetMin(FaceYs(face)), ymax |-> SetMax(FaceYs(face))]

(* Twice the signed area enclosed by the outline, times 30, by Green's     *)
(* theorem: the integral of x dy - y dx over a segment is a fixed          *)
(* bilinear form of its control points (1/1 for a line, 1/3 for a          *)
(* quadratic and 1/10 for a cubic Bezier).                                 *)
Cross(p, q) == p[1] * q[2] - p[2] * q[1]

SegArea60(seg) ==
    CASE Len(seg) = 2 -> 30 * Cross(seg[1], seg[2])
      [] Len(seg) = 3 -> 10 * (2 * Cross(seg[1], seg[2]) + 2 * Cross(seg[2], seg[3])
                               + Cross(seg[1], seg[3]))
      [] Len(seg) = 4 -> 3 * (6 * Cross(seg[1], seg[2]) + 3 * Cross(seg[1], seg[3])
                              + Cross(seg[1], seg[4]) + 3 * Cross(seg[2], seg[3])
                              + 3 * Cross(seg[2], seg[4]) + 6 * Cross(seg[3], seg[4]))

RECURSIVE SumArea60(_, _)
SumArea60(face, n) ==
    IF n = 0 THEN 0 ELSE SumArea60(face, n - 1) + SegArea60(face[n])

FaceArea60(face) == SumArea60(face, Len(face))

----------------------------------------------------------------------------
(* Locations: Location((x, y, z), (rx, ry, rz)) is the rotation            *)
(* Rx(rx) . Ry(ry) . Rz(rz) (intrinsic XYZ Euler angles, in degrees)       *)
(* followed by the translation (x, y, z).                                  *)
Cos(a) == CASE a = 0 -> 1 [] a = 90 -> 0 [] a = -90 -> 0 [] a = 180 -> -1
Sin(a) == CASE a = 0 -> 0 [] a = 90 -> 1 [] a = -90 -> -1 [] a = 180 -> 0

Rx(a) == << <<1, 0, 0>>, <<0, Cos(a), -Sin(a)>>, <<0, Sin(a), Cos(a)>> >>
Ry(a) == << <<Cos(a), 0, Sin(a)>>, <<0, 1, 0>>, <<-Sin(a), 0, Cos(a)>> >>
Rz(a) == << <<Cos(a), -Sin(a), 0>>, <<Sin(a), Cos(a), 0>>, <<0, 0, 1>> >>

MatMul(A, B) ==
    [i \in 1..3 |-> [j \in 1..3 |->
        A[i][1] * B[1][j] + A[i][2] * B[2][j] + A[i][3] * B[3][j]]]
MatVec(A, v) ==
    [i \in 1..3 |-> A[i][1] * v[1] + A[i][2] * v[2] + A[i][3] * v[3]]
Transpose(A) == [i \in 1..3 |-> [j \in 1..3 |-> A[j][i]]]
VecSub(v, w) == [i \in 1..3 |-> v[i] - w[i]]
VecAdd(v, w) == [i \in 1..3 |-> v[i] + w[i]]

RotMat(rotation) ==
    MatMul(MatMul(Rx(rotation[1]), Ry(rotation[2])), Rz(rotation[3]))

RightAngles(rotation) == \A i \in 1..3 : rotation[i] \in {0, 90, -90, 180}

\* The location keeps its rotation matrix and the inverse of it, for a
\* rotation by right angles; a rotation by 45 degrees is handled by
\* ToLocal45 below.
Location(position, rotation) ==
    [pos |-> position, rot |-> rotation,
     mat |-> IF RightAngles(rotation) THEN RotMat(rotation) ELSE <<>>,
     inv |-> IF RightAngles(rotation) THEN Transpose(RotMat(rotation)) ELSE <<>>]

Identity == Location(<<0, 0, 0>>, <<0, 0, 0>>)

\* the point of the located object that is at world point p
ToLocal(loc, p) == MatVec(loc.inv, VecSub(p, loc.pos))
\* the world point of the located object's point q
ToWorld(loc, q) == VecAdd(MatVec(loc.mat, q), loc.pos)

(* A rotation of +45 or -45 degrees about Y has the entries 1/sqrt(2).     *)
(* The point of the rotated object at p is ((dx - s dz)/sqrt 2, dy,        *)
(* (s dx + dz)/sqrt 2) with d = p - pos and s the sign of the angle; the   *)
(* two irrational coordinates are returned multiplied by sqrt 2.           *)
Sign(a) == IF a > 0 THEN 1 ELSE -1

ToLocal45(loc, p) ==
    LET d == VecSub(p, loc.pos)
        s == Sign(loc.rot[2])
    IN  [r2x |-> d[1] - s * d[3], y |-> d[2], r2z |-> s * d[1] + d[3]]

\* r <= sqrt(2) * c and r >= sqrt(2) * c, for integers r and c
LeqRoot2(r, c) ==
    IF c >= 0 THEN r <= 0 \/ r * r <= 2 * c * c
              ELSE r <= 0 /\ r * r >= 2 * c * c
GeqRoot2(r, c) == LeqRoot2(-r, -c)

----------------------------------------------------------------------------
(* Box(length, width, height, align=(MIN, CENTER, CENTER)): the box        *)
(* [0, length] x [-width/2, width/2] x [-height/2, height/2].  The         *)
(* script's widths and heights are even, so the halves are exact.          *)
Box(length, wid, hgt) ==
    [xlo |-> 0, xhi |-> length,
     ylo |-> -(wid \div 2), yhi |-> wid \div 2,
     zlo |-> -(hgt \div 2), zhi |-> hgt \div 2,
     loc |-> Identity]

locate(obj, loc) == [obj EXCEPT !.loc = loc]

\* p is a point of a box located with a rotation of +-45 degrees about Y
InBox(b, p) ==
    LET q == ToLocal45(b.loc, p)
    IN  /\ GeqRoot2(q.r2x, b.xlo) /\ LeqRoot2(q.r2x, b.xhi)
        /\ b.ylo <= q.y /\ q.y <= b.yhi
        /\ GeqRoot2(q.r2z, b.zlo) /\ LeqRoot2(q.r2z, b.zhi)

\* extent of the located box along the axis it is rotated about
BoxYMin(b) == b.loc.pos[2] + b.ylo
BoxYMax(b) == b.loc.pos[2] + b.yhi

(* extrude(face, amount): the face swept from z = 0 to z = amount.         *)
extrude(face, amount) ==
    [kind |-> "extrude", face |-> face, amount |-> amount,
     cuts |-> <<>>, loc |-> Identity]

(* solid.cut(tool): the solid without the points of the tool.              *)
cut(solid, tool) == [solid EXCEPT !.cuts = Append(@, tool)]

InAnyCut(solid, q) == \E i \in 1..Len(solid.cuts) : InBox(solid.cuts[i], q)

\* q, in the solid's own frame, is certainly / possibly a point of the
\* extrusion the solid was cut from
InExtrusion(solid, q) ==
    0 <= q[3] /\ q[3] <= solid.amount /\ InFace(solid.face, q[1], q[2])
MaybeInExtrusion(solid, q) ==
    0 <= q[3] /\ q[3] <= solid.amount /\ MaybeInFace(solid.face, q[1], q[2])

\* p, in world space, is certainly / possibly a point of the solid
InSolid(solid, p) ==
    LET q == ToLocal(solid.loc, p)
    IN  InExtrusion(solid, q) /\ ~InAnyCut(solid, q)
MaybeInSolid(solid, p) ==
    LET q == ToLocal(solid.loc, p)
    IN  MaybeInExtrusion(solid, q) /\ ~InAnyCut(solid, q)

(* a + b + c + d: the union of the solids.                                 *)
Fuse(parts) == [kind |-> "union", parts |-> parts]
InUnion(u, p) == \E i \in 1..Len(u.parts) : InSolid(u.parts[i], p)
MaybeInUnion(u, p) == \E i \in 1..Len(u.parts) : MaybeInSolid(u.parts[i], p)

(* Bounding boxes.  The miter cuts leave the outer edge x = 0 at its full  *)
(* length and the whole cross-section at mid-length, so a side's box is    *)
(* the box of its extrusion: face box x [0, amount], moved by loc.         *)
SolidBox(solid) ==
    LET fb == FaceBox(solid.face)
        corners == {ToWorld(solid.loc, <<x, y, z>>) :
                      x \in {fb.xmin, fb.xmax}, y \in {fb.ymin, fb.ymax},
                      z \in {0, solid.amount}}
    IN  [i \in 1..3 |-> <<SetMin({c[i] : c \in corners}),
                          SetMax({c[i] : c \in corners})>>]

UnionBox(u) ==
    [i \in 1..3 |->
        <<SetMin({SolidBox(u.parts[k])[i][1] : k \in 1..Len(u.parts)}),
          SetMax({SolidBox(u.parts[k])[i][2] : k \in 1..Len(u.parts)})>>]

BoxExtents(bb) == [i \in 1..3 |-> bb[i][2] - bb[i][1]]

----------------------------------------------------------------------------
(* create_picture_frame                                                    *)
\* slip: top listed before bottom
SideOrderTopFirst == <<"left", "right", "top", "bottom">>

\* the insertion order of the dict orientations
SideOrder == <<"left", "right", "bottom", "top">>

\* slip: bottom placed without its offset by the height
orientations_bottom_at_origin(name) ==
    CASE name = "left" ->
           [loc |-> Location(<<0, 0, 0>>, <<90, 0, 0>>), len |-> height]
      [] name = "right" ->
           [loc |-> Location(<<U(width), -U(height), 0>>, <<90, 180, 0>>),
            len |-> height]
      [] name = "bottom" ->
           [loc |-> Location(<<0, 0, 0>>, <<90, 90, 0>>), len |-> width]
      [] name = "top" ->
           [loc |-> Location(<<U(width), 0, 0>>, <<90, -90, 0>>), len |-> width]

orientations(name) ==
    CASE name = "left" ->
           [loc |-> Location(<<0, 0, 0>>, <<90, 0, 0>>), len |-> height]
      [] name = "right" ->
           [loc |-> Location(<<U(width), -U(height), 0>>, <<90, 180, 0>>),
            len |-> height]
      [] name = "bottom" ->
           [loc |-> Location(<<0, -U(height), 0>>, <<90, 90, 0>>), len |-> width]
      [] name = "top" ->
           [loc |-> Location(<<U(width), 0, 0>>, <<90, -90, 0>>), len |-> width]

props == orientations(SideOrder[idx])
length == props.len

cut_one(len) ==
    locate(Box(U(len), U(frame_depth * 2), U(len * 4)),
           Location(<<0, U(frame_depth), 0>>, <<0, 45, 0>>))

cut_two(len) ==
    locate(Box(U(len), U(frame_depth * 2), U(len * 4)),
           Location(<<0, U(frame_depth), U(len)>>, <<0, -45, 0>>))

\* Bounded parameter sets.  rabbet_width = frame_width and
\* rabbet_depth = frame_depth are the smallest degenerate steps.
Init ==
    /\ painting_width \in 1..MaxPainting
    /\ painting_height \in 1..MaxPainting
    /\ frame_width \in 1..MaxFrameWidth
    /\ frame_depth \in 1..MaxFrameDepth
    /\ rabbet_width \in 1..frame_width
    /\ rabbet_depth \in 1..frame_depth
    /\ pc = "loop"
    /\ idx = 1
    /\ side = NoSolid
    /\ sides = <<>>
    /\ frame = NoSolid

\* lines 102-105
Extrude ==
    /\ pc = "loop" /\ idx <= Len(SideOrder)
    /\ side' = extrude(create_frame_profile, U(length))
    /\ pc' = "cut_one"
    /\ UNCHANGED <<params, idx, sides, frame>>

\* The script has no check of its own; on a degenerate outline (a zero
\* length line, a self-intersecting wire) the geometry kernel may raise.
KernelRaises ==
    /\ pc = "loop" /\ idx <= Len(SideOrder)
    /\ ~Valid
    /\ pc' = "kernel_error"
    /\ UNCHANGED <<params, idx, side, sides, frame>>

\* lines 107-113
CutOne ==
    /\ pc = "cut_one"
    /\ side' = cut(side, cut_one(length))
    /\ pc' = "cut_two"
    /\ UNCHANGED <<params, idx, sides, frame>>

\* lines 115-121
CutTwo ==
    /\ pc = "cut_two"
    /\ side' = cut(side, cut_two(length))
    /\ pc' = "locate"
    /\ UNCHANGED <<params, idx, sides, frame>>

\* line 123
Locate ==
    /\ pc = "locate"
    /\ side' = locate(side, props.loc)
    /\ pc' = "append"
    /\ UNCHANGED <<params, idx, sides, frame>>

\* line 124, and the step of the for loop
AppendSide ==
    /\ pc = "append"
    /\ sides' = Append(sides, side)
    /\ idx' = idx + 1
    /\ pc' = "loop"
    /\ UNCHANGED <<params, side, frame>>

\* line 127
Return ==
    /\ pc = "loop" /\ idx > Len(SideOrder)
    /\ frame' = Fuse(<<sides[1], sides[2], sides[3], sides[4]>>)
    /\ pc' = "done"
    /\ UNCHANGED <<params, idx, side, sides>>

Next ==
    \/ Extrude
    \/ KernelRaises
    \/ CutOne
    \/ CutTwo
    \/ Locate
    \/ AppendSide
    \/ Return

Spec == Init /\ [][Next]_vars

----------------------------------------------------------------------------
(* Sample points.  Coordinates are chosen off every face plane of the      *)
(* construction (multiples of Scale, and the diagonals X + Y = c Scale,    *)
(* X - Y = c Scale), so a sample is never on the boundary of a flat face.  *)
Quarter == Scale \div 4
Half == Scale \div 2

FineCoords(lo, hi) == {Quarter + Half * i : i \in (2 * lo)..(2 * hi - 1)}
CoarseCoords(lo, hi) == {Half + Scale * i : i \in lo..(hi - 1)}

\* plan positions from one unit outside the outer rectangle
PlanSamples ==
    ({x : x \in FineCoords(-1, width + 1)}
        \X {-y : y \in CoarseCoords(-1, height + 1)})
    \cup
    ({x : x \in CoarseCoords(-1, width + 1)}
        \X {-y : y \in FineCoords(-1, height + 1)})

\* heights from below the back face to above the peak of the profile
Heights == CoarseCoords(-1, peak_height + 1)

\* points in the frame of a side before it is located: x across the
\* molding, y the height, z along the extrusion of length len
LocalSamples(len) ==
    (FineCoords(-1, frame_width + 1) \X Heights \X CoarseCoords(-1, len + 1))
    \cup
    (CoarseCoords(-1, frame_width + 1) \X Heights \X FineCoords(-1, len + 1))

InOuter(X, Y) == 0 < X /\ X < U(width) /\ -U(height) < Y /\ Y < 0

\* the rectangle grown by m around the opening
InOpeningGrown(X, Y, m) ==
    /\ U(frame_width - m) < X /\ X < U(width - frame_width + m)
    /\ -U(height - frame_width + m) < Y /\ Y < -U(frame_width - m)

InOpening(X, Y) == InOpeningGrown(X, Y, 0)
InRing(X, Y) == InOuter(X, Y) /\ ~InOpening(X, Y)

Built == pc = "done" /\ Valid

----------------------------------------------------------------------------
(* C1: for valid parameters the bounding box of the returned solid has the *)
(* extents opening_width + 2 frame_width, opening_height + 2 frame_width   *)
(* and frame_depth.                                                        *)
C1_BoundingBoxNominal ==
    Built =>
        BoxExtents(UnionBox(frame)) = <<U(width), U(height), U(frame_depth)>>

(* C2: for valid parameters every point of the ring between the outer      *)
(* rectangle and the opening is covered by a side (at every height of the  *)
(* full-width band between the rabbet ledge and frame_depth), and no side  *)
(* has a point over the opening or outside the outer rectangle at any      *)
(* height.                                                                 *)
C2_RingCovered ==
    Built =>
        \A xy \in PlanSamples :
            IF InRing(xy[1], xy[2])
            THEN \A Z \in Heights :
                    (U(rabbet_depth) < Z /\ Z < U(frame_depth)) =>
                        InUnion(frame, <<xy[1], xy[2], Z>>)
            ELSE \A Z \in Heights :
                    ~MaybeInUnion(frame, <<xy[1], xy[2], Z>>)

\* a ring point next to a corner diagonal is covered, at a sampled height
C2_Witness ==
    /\ Built
    /\ \E xy \in PlanSamples, Z \in Heights :
          /\ InRing(xy[1], xy[2])
          /\ xy[1] < U(frame_width) /\ xy[2] > -U(frame_width)
          /\ U(rabbet_depth) < Z /\ Z < U(frame_depth)
          /\ InSolid(frame.parts[4], <<xy[1], xy[2], Z>>)
          /\ ~InSolid(frame.parts[1], <<xy[1], xy[2], Z>>)

(* The plane of miter cut k of a side, in world space, as <<n, d>>: the    *)
(* material kept by the cut lies where n . p <= d.  In the side's own      *)
(* frame the cut plane is the face x = 0 of the rotated box, with outward  *)
(* normal (1, 0, -s) / sqrt 2 through the box's position.                  *)
Dot(v, w) == v[1] * w[1] + v[2] * w[2] + v[3] * w[3]

CutPlane(solid, k) ==
    LET b == solid.cuts[k]
        n == <<1, 0, -Sign(b.loc.rot[2])>>
        wn == MatVec(solid.loc.mat, n)
    IN  <<wn, Dot(n, b.loc.pos) + Dot(wn, solid.loc.pos)>>

OnPlane(pl, p) == Dot(pl[1], p) = pl[2]
Opposite(pl1, pl2) ==
    /\ pl2[1] = [i \in 1..3 |-> -pl1[1][i]]
    /\ pl2[2] = -pl1[2]

\* <<side, end, side, end, outer corner, opening corner>> of each corner
Corners ==
    { <<1, 1, 4, 2, <<0, 0, 0>>, <<U(frame_width), -U(frame_width), 0>> >>,
      <<1, 2, 3, 1, <<0, -U(height), 0>>,
                    <<U(frame_width), -U(height - frame_width), 0>> >>,
      <<3, 2, 2, 1, <<U(width), -U(height), 0>>,
                    <<U(width - frame_width), -U(height - frame_width), 0>> >>,
      <<2, 2, 4, 1, <<U(width), 0, 0>>,
                    <<U(width - frame_width), -U(frame_width), 0>> >> }

(* C3: at each corner the miter planes of the two adjacent sides are the   *)
(* same world plane, the diagonal through the outer corner and the corner  *)
(* of the opening, the sides lie on opposite sides of it, and two sides    *)
(* have no common point off that plane.                                    *)
C3_SeamsFlush ==
    Built =>
        /\ \A c \in Corners :
              LET pa == CutPlane(frame.parts[c[1]], c[2])
                  pb == CutPlane(frame.parts[c[3]], c[4])
              IN  /\ Opposite(pa, pb)
                  /\ OnPlane(pa, c[5]) /\ OnPlane(pa, c[6])
        /\ \A xy \in PlanSamples, Z \in Heights :
              \A i, j \in 1..4 :
                  i < j => ~(/\ InSolid(frame.parts[i], <<xy[1], xy[2], Z>>)
                             /\ InSolid(frame.parts[j], <<xy[1], xy[2], Z>>))

(* C4: after the two miter cuts the material of a side is exactly the     *)
(* part of the extruded profile with x <= z <= L - x, at every height.     *)
C4_MiterExact ==
    (pc = "locate" /\ Valid) =>
        \A q \in LocalSamples(length) :
            InExtrusion(side, q) =>
                (InSolid(side, q) <=>
                    (q[1] <= q[3] /\ q[3] <= U(length) - q[1]))

(* C5: for valid parameters the outline is a closed chain of eight         *)
(* segments, each starting at the end of the previous one and the last     *)
(* ending at the start (0, 0) of the first, and it encloses positive area. *)
C5_ProfileClosed ==
    (Valid /\ side # NoSolid) =>
        /\ Len(side.face) = 8
        /\ \A i \in 1..7 : StartOf(side.face[i + 1]) = EndOf(side.face[i])
        /\ EndOf(side.face[8]) = StartOf(side.face[1])
        /\ StartOf(side.face[1]) = <<0, 0>>
        /\ FaceArea60(side.face) > 0

C5_Witness ==
    /\ Valid /\ pc = "cut_one"
    /\ EndOf(side.face[8]) = <<0, 0>>
    /\ FaceArea60(side.face) >
          60 * (U(frame_width) * U(frame_depth) - U(rabbet_width) * U(rabbet_depth))

(* C6: for valid parameters, inside the outer rectangle the material-free  *)
(* region is the opening grown by rabbet_width at heights below            *)
(* rabbet_depth, and the opening itself at heights from rabbet_depth to    *)
(* frame_depth.                                                            *)
C6_RabbetNotch ==
    Built =>
        \A xy \in PlanSamples :
            InOuter(xy[1], xy[2]) =>
                \A Z \in Heights :
                    (0 < Z /\ Z < U(frame_depth)) =>
                        LET free ==
                                IF Z < U(rabbet_depth)
                                THEN InOpeningGrown(xy[1], xy[2], rabbet_width)
                                ELSE InOpening(xy[1], xy[2])
                        IN  IF free
                            THEN ~MaybeInUnion(frame, <<xy[1], xy[2], Z>>)
                            ELSE InUnion(frame, <<xy[1], xy[2], Z>>)

\* a corner point of the notch: free below rabbet_depth, material above
C6_Witness ==
    /\ Built
    /\ \E xy \in PlanSamples, Z1, Z2 \in Heights :
          /\ InOpeningGrown(xy[1], xy[2], rabbet_width)
          /\ ~InOpening(xy[1], xy[2])
          /\ xy[1] < U(frame_width) /\ xy[2] > -U(frame_width)
          /\ 0 < Z1 /\ Z1 < U(rabbet_depth)
          /\ U(rabbet_depth) < Z2 /\ Z2 < U(frame_depth)
          /\ ~InUnion(frame, <<xy[1], xy[2], Z1>>)
          /\ InUnion(frame, <<xy[1], xy[2], Z2>>)

(* C7: when rabbet_width >= frame_width or rabbet_depth >= frame_depth     *)
(* construction is rejected: no profile is extruded and no side or frame   *)
(* solid is produced.                                                      *)
C7_DegenerateRejected ==
    ~Valid => (side = NoSolid /\ sides = <<>> /\ frame = NoSolid)

\* the part of the extrusion a cut has to remove lies beyond its plane
BeyondCutPlane(b, q) == ToLocal45(b.loc, q).r2x > 0

(* C8: for valid parameters each cutting box extends below the lowest and  *)
(* above the highest point of the profile with a positive margin, and      *)
(* contains every point of the extrusion beyond its cut plane.             *)
C8_CutBoxOversized ==
    (pc \in {"cut_two", "locate"} /\ Valid) =>
        \A k \in 1..Len(side.cuts) :
            LET b == side.cuts[k]
            IN  /\ BoxYMin(b) < FaceBox(side.face).ymin
                /\ BoxYMax(b) > FaceBox(side.face).ymax
                /\ \A q \in LocalSamples(length) :
                      (InExtrusion(side, q) /\ BeyondCutPlane(b, q)) =>
                          InBox(b, q)

\* what building one side alone gives
SideAlone(name) ==
    LET len == orientations(name).len
    IN  locate(cut(cut(extrude(create_frame_profile, U(len)), cut_one(len)),
                   cut_two(len)),
               orientations(name).loc)

FrontChained(face) ==
    /\ {i \in 1..Len(face) : IsCurve(face[i])} = {5, 6, 7}
    /\ StartOf(face[5]) = <<U(frame_width), U(frame_depth)>>
    /\ StartOf(face[6]) = EndOf(face[5])
    /\ StartOf(face[7]) = EndOf(face[6])
    /\ EndOf(face[7]) = <<0, U(frame_depth)>>

C10_AllCubic ==
    side # NoSolid =>
        /\ FrontChained(side.face)
        /\ \A i \in {5, 6, 7} : Len(side.face[i]) = 4

(* C10 amended: the decorative front is three chained curve segments from  *)
(* (frame_width, frame_depth) to (0, frame_depth); bezier and bezier2 are  *)
(* cubic (four control points), bezier3 is quadratic (three).              *)
C10_TwoCubicOneQuadratic ==
    side # NoSolid =>
        /\ FrontChained(side.face)
        /\ Len(side.face[5]) = 4
        /\ Len(side.face[6]) = 4
        /\ Len(side.face[7]) = 3

C10_Witness ==
    /\ pc = "cut_one"
    /\ Len(side.face[7]) = 3
    /\ EndOf(side.face[7]) = <<0, U(frame_depth)>>

====
